---------------------------- MODULE Spec2Model ----------------------------
(***************************************************************************)
(* Model of sorastudio-worker: src/processor_worker.py.                    *)
(*                                                                         *)
(*   Spec          the worker loop run_worker() against the key-value      *)
(*                 store, with an external producer filling the queue.     *)
(*   DispatchSpec  the dispatcher process_video_task() with its handlers   *)
(*                 and the status recorder update_task_status(), called    *)
(*                 on task records drawn from TaskRecords.                 *)
(*                                                                         *)
(* run_worker() calls process_task (line 231), a name that no file of the  *)
(* repository defines: the call raises NameError, which the loop's own     *)
(* except clause (line 233) catches.  The dispatcher process_video_task is *)
(* therefore not reached from the loop and is modelled on its own.         *)
(***************************************************************************)
EXTENDS Naturals, Sequences, FiniteSets, TLC

(***************************************************************************)
(* Bounds of the model.                                                    *)
(***************************************************************************)
\* entries the producer creates under one pending key
MaxEnqueue == 2
\* the read counter of an entry saturates here ("read more than once")
ReadCap == 2
\* largest clock value; time.time() is read from the clock
MaxTime == 1

(***************************************************************************)
(* Python values.                                                          *)
(***************************************************************************)
\* Python's None (dict.get of a missing key, redis get of a missing key)
None == "<None>"

\* str(x) as an f-string formats it: None prints as "None"
PyStr(x) == IF x = None THEN "None" ELSE x

\* dict.get(k): the value, or None when the key is missing
DictGet(d, k) == IF k \in DOMAIN d THEN d[k] ELSE None

\* dict.get(k, default)
DictGetDefault(d, k, default) == IF k \in DOMAIN d THEN d[k] ELSE default

\* "not raw" is true of None and of the empty string
Falsy(s) == s = None \/ s = ""

(***************************************************************************)
(* The store.  Keys of the queue and the payloads an external producer     *)
(* may put under them.                                                     *)
(***************************************************************************)
PendingKeys == {"pending_task:a", "pending_task:b"}

RawEmpty == ""
RawMalformed == "{bad"
RawVideoGen == "{\"task_id\":\"t1\",\"type\":\"video_generation\"}"
RawBogus == "{\"task_id\":\"t2\",\"type\":\"bogus\"}"
RawNoId == "{\"type\":\"digital_human\"}"

RawPayloads == {RawEmpty, RawMalformed, RawVideoGen, RawBogus, RawNoId}

\* the exception json.loads raises on text that is not JSON
JSONDecodeError == [exc |-> "JSONDecodeError", msg |-> <<"Expecting property name enclosed in double quotes">>]

\* the exception the call of the undefined name process_task raises
NameErrorProcessTask == [exc |-> "NameError", msg |-> <<"name 'process_task' is not defined">>]

\* json.loads(raw): the parsed value, or the exception raised
json_loads(s) ==
    CASE s = RawVideoGen -> [ok |-> TRUE, value |-> [task_id |-> "t1", type |-> "video_generation"]]
      [] s = RawBogus    -> [ok |-> TRUE, value |-> [task_id |-> "t2", type |-> "bogus"]]
      [] s = RawNoId     -> [ok |-> TRUE, value |-> [type |-> "digital_human"]]
      [] OTHER           -> [ok |-> FALSE, error |-> JSONDecodeError]

\* the worker loops that may run against one store
Workers == {"w1", "w2"}

\* web_entry.py starts one thread running run_worker
LoopWorkers == {"w1"}

\* an entry of the queue: a key and the serial number of its creation
EntryIds == PendingKeys \X (1..MaxEnqueue)

\* all orders in which the store may enumerate a set of keys
Enumerations(S) ==
    {s \in [1..Cardinality(S) -> S] : \A i, j \in 1..Cardinality(S) : i # j => s[i] # s[j]}

VARIABLES
    pending,      \* store: pending_task:* key -> raw value
    statusStore,  \* store: task:* key -> [val, ttl]
    serial,       \* history: entries created so far under each pending key
    pc,           \* per worker: the line run_worker is at
    task_keys,    \* per worker: run_worker's task_keys
    idx,          \* per worker: position of the for loop in task_keys
    key,          \* per worker: run_worker's key
    raw,          \* per worker: run_worker's raw
    task_data,    \* per worker: run_worker's task_data
    err,          \* per worker: the exception caught at line 233, or NoError
    cur,          \* history, per worker: the entry the last get read
    reads,        \* history: gets that returned each entry (saturating)
    deletes,      \* history: deletes that removed each entry
    calls,        \* history: executions of line 231 for each entry
    claimed,      \* history: <<entry, task_data>> claimed at line 229
    passClaimed,  \* history, per worker: the task_data claimed in this pass
    callsBy,      \* history: executions of line 231 by each worker for each entry
    fs,           \* file system: the paths that exist
    now,          \* the clock time.time() reads
    lastCall,     \* the last call of process_video_task, or NoCall
    lastUpdate    \* the last direct call of update_task_status, or NoCall

workerVars == <<pc, task_keys, idx, key, raw, task_data, err, cur>>
historyVars == <<serial, reads, deletes, calls, claimed, passClaimed, callsBy>>
dispatchVars == <<fs, now, lastCall, lastUpdate>>
vars == <<pending, statusStore, workerVars, historyVars, dispatchVars>>

NoEntry == <<None, 0>>

\* the value of a local of run_worker that has not been assigned yet
Unbound == [unbound |-> TRUE]

\* no exception caught in this pass
NoError == [exc |-> None, msg |-> <<>>]

\* the entry now stored under key k
EntryAt(k) == IF k \in DOMAIN pending THEN <<k, serial[k]>> ELSE NoEntry

Bump(f, e) == IF e \in DOMAIN f THEN [f EXCEPT ![e] = @ + 1] ELSE f

BumpCapped(f, e) ==
    IF e \in DOMAIN f THEN [f EXCEPT ![e] = IF @ < ReadCap THEN @ + 1 ELSE @] ELSE f

\* redis_client.delete(k)
StoreDelete(store, k) == [x \in DOMAIN store \ {k} |-> store[x]]

\* redis_client.get(k)
StoreGet(store, k) == IF k \in DOMAIN store THEN store[k] ELSE None

(***************************************************************************)
(* The external producer: creates an entry under a pending key that is     *)
(* not in the store.                                                       *)
(***************************************************************************)
Enqueue(k, v) ==
    /\ k \notin DOMAIN pending
    /\ serial[k] < MaxEnqueue
    /\ pending' = (k :> v) @@ pending
    /\ serial' = [serial EXCEPT ![k] = @ + 1]
    /\ UNCHANGED <<statusStore, workerVars, reads, deletes, calls, claimed, passClaimed,
                   callsBy, dispatchVars>>

(***************************************************************************)
(* run_worker, lines 219-236.                                              *)
(***************************************************************************)
\* the for statement takes the next key, or ends and falls to the sleep
ForNext(w, tk, i) ==
    IF i < Len(tk)
    THEN /\ idx' = [idx EXCEPT ![w] = i + 1]
         /\ key' = [key EXCEPT ![w] = tk[i + 1]]
         /\ pc' = [pc EXCEPT ![w] = "get"]
    ELSE /\ idx' = [idx EXCEPT ![w] = i]
         /\ key' = key
         /\ pc' = [pc EXCEPT ![w] = "sleep"]

\* line 221: task_keys = redis_client.keys("pending_task:*"), then the for
ScanKeys(w) ==
    /\ pc[w] = "keys"
    /\ \E tk \in Enumerations(DOMAIN pending) :
          /\ task_keys' = [task_keys EXCEPT ![w] = tk]
          /\ ForNext(w, tk, 0)
    /\ err' = [err EXCEPT ![w] = NoError]
    /\ passClaimed' = [passClaimed EXCEPT ![w] = {}]
    /\ UNCHANGED <<pending, statusStore, raw, task_data, cur,
                   serial, reads, deletes, calls, claimed, callsBy, dispatchVars>>

\* line 223: raw = redis_client.get(key); line 224: if not raw
GetRaw(w) ==
    /\ pc[w] = "get"
    /\ raw' = [raw EXCEPT ![w] = StoreGet(pending, key[w])]
    /\ cur' = [cur EXCEPT ![w] = EntryAt(key[w])]
    /\ reads' = BumpCapped(reads, EntryAt(key[w]))
    /\ pc' = [pc EXCEPT ![w] = IF Falsy(raw'[w]) THEN "delete_empty" ELSE "loads"]
    /\ UNCHANGED <<pending, statusStore, task_keys, idx, key, task_data, err,
                   serial, deletes, calls, claimed, passClaimed, callsBy, dispatchVars>>

\* lines 225-226: redis_client.delete(key); continue
DeleteEmpty(w) ==
    /\ pc[w] = "delete_empty"
    /\ pending' = StoreDelete(pending, key[w])
    /\ deletes' = Bump(deletes, EntryAt(key[w]))
    /\ ForNext(w, task_keys[w], idx[w])
    /\ UNCHANGED <<statusStore, task_keys, raw, task_data, err, cur,
                   serial, reads, calls, claimed, passClaimed, callsBy, dispatchVars>>

\* line 228: task_data = json.loads(raw); an exception leaves the for
\* statement and is caught at line 233
LoadJson(w) ==
    /\ pc[w] = "loads"
    /\ LET r == json_loads(raw[w]) IN
         IF r.ok
         THEN /\ task_data' = [task_data EXCEPT ![w] = r.value]
              /\ pc' = [pc EXCEPT ![w] = "delete"]
              /\ err' = err
         ELSE /\ task_data' = task_data
              /\ pc' = [pc EXCEPT ![w] = "sleep"]
              /\ err' = [err EXCEPT ![w] = r.error]
    /\ UNCHANGED <<pending, statusStore, task_keys, idx, key, raw, cur,
                   historyVars, dispatchVars>>

\* ClaimDelete with the delete of line 229 left out
ClaimDelete_NoDelete(w) ==
    /\ pc[w] = "delete"
    /\ claimed' = claimed \cup {<<cur[w], task_data[w]>>}
    /\ passClaimed' = [passClaimed EXCEPT ![w] = @ \cup {task_data[w]}]
    /\ pc' = [pc EXCEPT ![w] = "call"]
    /\ UNCHANGED <<pending, statusStore, task_keys, idx, key, raw, task_data, err, cur,
                   serial, reads, deletes, calls, callsBy, dispatchVars>>

\* line 229: redis_client.delete(key)
ClaimDelete(w) ==
    /\ pc[w] = "delete"
    /\ pending' = StoreDelete(pending, key[w])
    /\ deletes' = Bump(deletes, EntryAt(key[w]))
    /\ claimed' = claimed \cup {<<cur[w], task_data[w]>>}
    /\ passClaimed' = [passClaimed EXCEPT ![w] = @ \cup {task_data[w]}]
    /\ pc' = [pc EXCEPT ![w] = "call"]
    /\ UNCHANGED <<statusStore, task_keys, idx, key, raw, task_data, err, cur,
                   serial, reads, calls, callsBy, dispatchVars>>

\* CallProcessTask with the NameError caught per task: the sweep goes on
CallProcessTask_Continues(w) ==
    /\ pc[w] = "call"
    /\ calls' = Bump(calls, cur[w])
    /\ callsBy' = Bump(callsBy, <<w, cur[w]>>)
    /\ err' = err
    /\ ForNext(w, task_keys[w], idx[w])
    /\ UNCHANGED <<pending, statusStore, task_keys, raw, task_data, cur,
                   serial, reads, deletes, claimed, passClaimed, dispatchVars>>

\* CallProcessTask with an except clause that does not catch NameError: the
\* exception ends run_worker
CallProcessTask_Uncaught(w) ==
    /\ pc[w] = "call"
    /\ calls' = Bump(calls, cur[w])
    /\ callsBy' = Bump(callsBy, <<w, cur[w]>>)
    /\ err' = [err EXCEPT ![w] = NameErrorProcessTask]
    /\ pc' = [pc EXCEPT ![w] = "crashed"]
    /\ UNCHANGED <<pending, statusStore, task_keys, idx, key, raw, task_data, cur,
                   serial, reads, deletes, claimed, passClaimed, dispatchVars>>

\* CallProcessTask with a retry: the except clause puts the entry back
CallProcessTask_Requeue(w) ==
    /\ pc[w] = "call"
    /\ calls' = Bump(calls, cur[w])
    /\ callsBy' = Bump(callsBy, <<w, cur[w]>>)
    /\ err' = [err EXCEPT ![w] = NameErrorProcessTask]
    /\ pending' = (key[w] :> raw[w]) @@ pending
    /\ pc' = [pc EXCEPT ![w] = "sleep"]
    /\ UNCHANGED <<statusStore, task_keys, idx, key, raw, task_data, cur,
                   serial, reads, deletes, claimed, passClaimed, dispatchVars>>

\* line 231: process_task(task_data).  No file of the repository defines
\* process_task: the call raises NameError, caught at line 233.
CallProcessTask(w) ==
    /\ pc[w] = "call"
    /\ calls' = Bump(calls, cur[w])
    /\ callsBy' = Bump(callsBy, <<w, cur[w]>>)
    /\ err' = [err EXCEPT ![w] = NameErrorProcessTask]
    /\ pc' = [pc EXCEPT ![w] = "sleep"]
    /\ UNCHANGED <<pending, statusStore, task_keys, idx, key, raw, task_data, cur,
                   serial, reads, deletes, claimed, passClaimed, dispatchVars>>

\* line 236: time.sleep(1), then the next iteration of while True
Sleep(w) ==
    /\ pc[w] = "sleep"
    /\ pc' = [pc EXCEPT ![w] = "keys"]
    /\ UNCHANGED <<pending, statusStore, task_keys, idx, key, raw, task_data, err, cur,
                   historyVars, dispatchVars>>

\* the exception a store operation raises when the store is unreachable
ConnectionError == [exc |-> "ConnectionError", msg |-> <<"Error connecting to redis">>]

\* the lines of run_worker that call the store: keys (221), get (223),
\* delete (225, 229)
StoreOpLines == {"keys", "get", "delete_empty", "delete"}

\* lines 221-229 with the store unreachable: the store operation raises, the
\* store is left as it is, and the exception is caught at line 233.  A pass
\* whose keys() raises keeps the task_keys of the pass before and runs no for.
StoreFault(w) ==
    /\ pc[w] \in StoreOpLines
    /\ err' = [err EXCEPT ![w] = ConnectionError]
    /\ passClaimed' = [passClaimed EXCEPT ![w] = IF pc[w] = "keys" THEN {} ELSE @]
    /\ pc' = [pc EXCEPT ![w] = "sleep"]
    /\ UNCHANGED <<pending, statusStore, task_keys, idx, key, raw, task_data, cur,
                   serial, reads, deletes, calls, claimed, callsBy, dispatchVars>>

(***************************************************************************)
(* The handlers, lines 50-194.  A handler either returns a dict or raises; *)
(* an outcome is [kind |-> "return", value |-> dict] or                    *)
(* [kind |-> "raise", error |-> [exc, msg]], msg being the parts of str(e).*)
(***************************************************************************)
Paths == {"/in.mp4"}

Return(v) == [kind |-> "return", value |-> v]
Raise(e, m) == [kind |-> "raise", error |-> [exc |-> e, msg |-> m]]

\* os.path.exists(p), after the "not p" test that precedes it
Missing(p, files) == p = None \/ p = "" \/ p \notin files

\* lines 50-72: always returns a dict, which has no key "success"
generate_video_with_sora(td) ==
    Return([video_url     |-> "/generated/" \o PyStr(DictGet(td, "task_id")) \o ".mp4",
            thumbnail_url |-> "/thumbnails/" \o PyStr(DictGet(td, "task_id")) \o ".jpg",
            duration      |-> DictGetDefault(td, "duration", 5),
            resolution    |-> "1920x1080",
            format        |-> "mp4"])

\* lines 74-128: FileNotFoundError on a missing path (line 81, message
\* "视频文件不存在: <path>"); otherwise line 86 uses cv2, which the module
\* never imports
analyze_video_style(td, files) ==
    IF Missing(DictGet(td, "video_path"), files)
    THEN Raise("FileNotFoundError", <<"video file does not exist: ", PyStr(DictGet(td, "video_path"))>>)
    ELSE Raise("NameError", <<"name 'cv2' is not defined">>)

\* lines 130-149: always returns a dict, which has no key "success"
generate_digital_human_video(td) ==
    Return([video_url       |-> "/digital_human/" \o PyStr(DictGet(td, "task_id")) \o ".mp4",
            audio_url       |-> "/audio/" \o PyStr(DictGet(td, "task_id")) \o ".wav",
            lip_sync_score  |-> "0.95",
            processing_time |-> 10])

\* whether process_video_file runs ffmpeg for this operation (lines 165-188)
RunsFfmpeg(td, files) ==
    LET operation == DictGetDefault(td, "operation", "slice") IN
    \/ operation \in {"slice", "merge"}
    \/ operation = "add_watermark" /\ ~Missing(DictGet(td, "watermark_path"), files)

\* lines 151-194: FileNotFoundError on a missing input path (line 160,
\* message "输入文件不存在: <path>"); ffmpeg.run may raise ffmpeg.Error;
\* otherwise returns a dict, which has no key "success"
process_video_file(td, files, ffmpegOk, t) ==
    IF Missing(DictGet(td, "input_path"), files)
    THEN Raise("FileNotFoundError", <<"input file does not exist: ", PyStr(DictGet(td, "input_path"))>>)
    ELSE IF RunsFfmpeg(td, files) /\ ~ffmpegOk
    THEN Raise("ffmpeg.Error", <<"ffmpeg error (see stderr output for detail)">>)
    ELSE Return([output_path  |-> DictGet(td, "output_path"),
                 operation    |-> DictGetDefault(td, "operation", "slice"),
                 processed_at |-> t])

(***************************************************************************)
(* The dispatcher process_video_task, lines 13-48.                         *)
(***************************************************************************)
\* lines 24-37: the handler the if/elif chain selects, None for the else
HandlerFor(task_type) ==
    CASE task_type = "video_generation" -> "generate_video_with_sora"
      [] task_type = "video_analysis"   -> "analyze_video_style"
      [] task_type = "digital_human"    -> "generate_digital_human_video"
      [] task_type = "video_processing" -> "process_video_file"
      [] OTHER                          -> None

\* UnknownTypeError with a message that leaves the type out
UnknownTypeError_NoValue(task_type) ==
    Raise("ValueError", <<"unknown task type">>)

\* line 37: ValueError(f"未知任务类型: {task_type}")
UnknownTypeError(task_type) ==
    Raise("ValueError", <<"unknown task type: ", PyStr(task_type)>>)

\* lines 24-37: result = <handler>(task_data), or the ValueError
HandlerOutcome(td, files, ffmpegOk, t) ==
    LET h == HandlerFor(DictGet(td, "type")) IN
    CASE h = "generate_video_with_sora"     -> generate_video_with_sora(td)
      [] h = "analyze_video_style"          -> analyze_video_style(td, files)
      [] h = "generate_digital_human_video" -> generate_digital_human_video(td)
      [] h = "process_video_file"           -> process_video_file(td, files, ffmpegOk, t)
      [] OTHER                              -> UnknownTypeError(DictGet(td, "type"))

\* an optional argument: NoValue is None, Some(x) is x
NoValue == <<>>
Some(x) == <<x>>

\* str(KeyError(k))
KeyErrorStr(k) == <<"'" \o k \o "'">>

StatusArgs(st, pr, res, er) == [status |-> st, progress |-> pr, result |-> res, error |-> er]

\* lines 39-44 on a returned result: result["success"], result["data"],
\* result["error"]; a missing key raises KeyError inside the try
ResultStatus(result) ==
    IF "success" \notin DOMAIN result
    THEN Raise("KeyError", KeyErrorStr("success"))
    ELSE IF result["success"] = TRUE
    THEN IF "data" \in DOMAIN result
         THEN Return(StatusArgs("completed", 100, Some(result["data"]), NoValue))
         ELSE Raise("KeyError", KeyErrorStr("data"))
    ELSE IF "error" \in DOMAIN result
         THEN Return(StatusArgs("failed", 0, NoValue, Some(result["error"])))
         ELSE Raise("KeyError", KeyErrorStr("error"))

\* ExceptStatus with no except clause: the exception leaves the function
ExceptStatus_Propagates(error) ==
    [raised |-> TRUE, args |-> NoValue]

\* lines 46-48: except Exception as e: the failed status with str(e)
ExceptStatus(error) ==
    [raised |-> FALSE, args |-> Some(StatusArgs("failed", 0, NoValue, Some(error.msg)))]

\* lines 23-48: the arguments process_video_task passes to
\* update_task_status, and whether an exception leaves the function
DispatchStatus(outcome) ==
    IF outcome.kind = "raise"
    THEN ExceptStatus(outcome.error)
    ELSE LET r == ResultStatus(outcome.value) IN
         IF r.kind = "raise"
         THEN ExceptStatus(r.error)
         ELSE [raised |-> FALSE, args |-> Some(r.value)]

(***************************************************************************)
(* The status recorder update_task_status, lines 196-209.                  *)
(***************************************************************************)
\* line 209: the time-to-live of a status record, in seconds
StatusTTL == 3600

\* json.dumps writes None as null
JsonNull == "null"

\* json.dumps(status_data): task_id may be None
json_dumps(d) == [d EXCEPT !["task_id"] = IF @ = None THEN JsonNull ELSE @]

\* line 209: the key f"task:{task_id}"
StatusKey(task_id) == "task:" \o PyStr(task_id)

\* lines 197-207: status_data
StatusData(task_id, a, t) ==
    [task_id |-> task_id, status |-> a.status, progress |-> a.progress, timestamp |-> t]
    @@ (IF a.result # NoValue THEN ("result" :> a.result[1]) ELSE <<>>)
    @@ (IF a.error # NoValue THEN ("error" :> a.error[1]) ELSE <<>>)

\* StoreSetex as a merge: fields of the record stored before survive
StoreSetex_Merge(store, k, ttl, v) ==
    (k :> [val |-> IF k \in DOMAIN store THEN v @@ store[k].val ELSE v, ttl |-> ttl]) @@ store

\* StoreSetex as a set that keeps the time-to-live of the record stored before
StoreSetex_KeepTTL(store, k, ttl, v) ==
    (k :> [val |-> v, ttl |-> IF k \in DOMAIN store THEN store[k].ttl ELSE ttl]) @@ store

\* the store dt seconds later: every time-to-live has counted down by dt and
\* the records whose time-to-live has run out are gone
Expire(store, dt) ==
    [k \in {x \in DOMAIN store : store[x].ttl > dt} |-> [store[k] EXCEPT !.ttl = @ - dt]]

\* redis_client.setex(k, ttl, v)
StoreSetex(store, k, ttl, v) == (k :> [val |-> v, ttl |-> ttl]) @@ store

\* lines 196-209
update_task_status(store, task_id, a, t) ==
    StoreSetex(store, StatusKey(task_id), StatusTTL, json_dumps(StatusData(task_id, a, t)))

(***************************************************************************)
(* A call process_video_task(td).  The handler's work takes the clock from *)
(* now to t; ffmpegOk is whether ffmpeg.run succeeds, if it is run.        *)
(***************************************************************************)
NoCall == [called |-> FALSE]

ProcessVideoTask(td, ffmpegOk, t) ==
    LET outcome == HandlerOutcome(td, fs, ffmpegOk, t)
        d       == DispatchStatus(outcome)
        task_id == DictGet(td, "task_id")
    IN
    /\ now' = t
    /\ statusStore' = IF d.args # NoValue
                      THEN update_task_status(Expire(statusStore, t - now), task_id, d.args[1], t)
                      ELSE Expire(statusStore, t - now)
    /\ lastCall' = [called  |-> TRUE,
                    task    |-> td,
                    handler |-> HandlerFor(DictGet(td, "type")),
                    outcome |-> outcome,
                    raised  |-> d.raised,
                    wrote   |-> IF d.args # NoValue THEN StatusKey(task_id) ELSE None]
    /\ UNCHANGED <<pending, workerVars, historyVars, fs, lastUpdate>>

(***************************************************************************)
(* The task records the dispatcher is called on.                           *)
(***************************************************************************)
TaskIds == {"t1"}

TaskTypes == {"video_generation", "video_analysis", "digital_human",
              "video_processing", "image_generation", "bogus"}

\* a dict of the fields that are present; None marks a missing field
Field(name, v) == IF v = None THEN <<>> ELSE (name :> v)

TaskRecords ==
    LET base(id, ty) == Field("task_id", id) @@ Field("type", ty) IN
    UNION {
      {base(id, ty) : ty \in (TaskTypes \cup {None}) \ {"video_analysis", "video_processing"}}
      \cup {base(id, "video_analysis") @@ Field("video_path", p) : p \in Paths \cup {None}}
      \cup {base(id, "video_processing") @@ Field("input_path", p) @@ Field("operation", op)
              : p \in Paths \cup {None}, op \in {None, "add_watermark"}}
      : id \in TaskIds \cup {None} }

CallDispatcher ==
    \E td \in TaskRecords, ffmpegOk \in BOOLEAN, t \in now..MaxTime :
        ProcessVideoTask(td, ffmpegOk, t)


(***************************************************************************)
(* Direct calls of update_task_status, and the passing of time.            *)
(***************************************************************************)
\* the (status, progress, result, error) a caller may pass
UpdateArgs ==
    {StatusArgs("processing", 10, NoValue, NoValue),
     StatusArgs("completed", 100, Some([video_url |-> "/generated/t1.mp4"]), NoValue),
     StatusArgs("failed", 0, NoValue, Some(<<"boom">>))}

\* update_task_status(task_id, a.status, a.progress, a.result, a.error),
\* called when the clock reads now; lastUpdate keeps the call, the record
\* that was stored under the key before it, and whether the call before it
\* had the same arguments
CallUpdate(task_id, a) ==
    /\ statusStore' = update_task_status(statusStore, task_id, a, now)
    /\ lastUpdate' = [called  |-> TRUE,
                      task_id |-> task_id,
                      args    |-> a,
                      at      |-> now,
                      before  |-> IF StatusKey(task_id) \in DOMAIN statusStore
                                  THEN Some(statusStore[StatusKey(task_id)].val)
                                  ELSE NoValue,
                      repeat  |-> /\ lastUpdate.called
                                  /\ lastUpdate.task_id = task_id
                                  /\ lastUpdate.args = a]
    /\ UNCHANGED <<pending, workerVars, historyVars, fs, now, lastCall>>

\* one second passes
Tick ==
    /\ now < MaxTime
    /\ now' = now + 1
    /\ statusStore' = Expire(statusStore, 1)
    /\ UNCHANGED <<pending, workerVars, historyVars, fs, lastCall, lastUpdate>>

\* the queue holds q and the loops of the workers in running are about to
\* scan for the first time; a worker that was not started is "off"
LoopState(q, running) ==
    /\ pending = q
    /\ statusStore = <<>>
    /\ serial = [k \in PendingKeys |-> IF k \in DOMAIN q THEN 1 ELSE 0]
    /\ pc = [w \in Workers |-> IF w \in running THEN "keys" ELSE "off"]
    /\ task_keys = [w \in Workers |-> <<>>]
    /\ idx = [w \in Workers |-> 0]
    /\ key = [w \in Workers |-> None]
    /\ raw = [w \in Workers |-> None]
    /\ task_data = [w \in Workers |-> Unbound]
    /\ err = [w \in Workers |-> NoError]
    /\ cur = [w \in Workers |-> NoEntry]
    /\ reads = [e \in EntryIds |-> 0]
    /\ deletes = [e \in EntryIds |-> 0]
    /\ calls = [e \in EntryIds |-> 0]
    /\ claimed = {}
    /\ passClaimed = [w \in Workers |-> {}]
    /\ callsBy = [x \in Workers \X EntryIds |-> 0]
    /\ now = 0
    /\ lastCall = NoCall
    /\ lastUpdate = NoCall

\* the store is empty and the loop of web_entry.py is about to scan for the
\* first time
LoopInit == LoopState(<<>>, LoopWorkers)

Init ==
    /\ LoopInit
    /\ fs = {}

Next ==
    \/ \E k \in PendingKeys, v \in RawPayloads : Enqueue(k, v)
    \/ \E w \in Workers : ScanKeys(w)
    \/ \E w \in Workers : GetRaw(w)
    \/ \E w \in Workers : DeleteEmpty(w)
    \/ \E w \in Workers : LoadJson(w)
    \/ \E w \in Workers : ClaimDelete(w)
    \/ \E w \in Workers : CallProcessTask(w)
    \/ \E w \in Workers : Sleep(w)

Spec == Init /\ [][Next]_vars

\* one step of the loop of worker w
WorkerStep(w) ==
    \/ ScanKeys(w)
    \/ GetRaw(w)
    \/ DeleteEmpty(w)
    \/ LoadJson(w)
    \/ ClaimDelete(w)
    \/ CallProcessTask(w)
    \/ Sleep(w)

LoopNext == \E w \in Workers : WorkerStep(w)

\* what the queue may hold when a worker starts: any of the keys, each with
\* any of the payloads
Queues == UNION {[S -> RawPayloads] : S \in SUBSET PendingKeys}

\* the loop of web_entry.py started on a queue that producers have filled,
\* with no producer running
QueueInit ==
    /\ \E q \in Queues : LoopState(q, LoopWorkers)
    /\ fs = {}

QueueSpec == QueueInit /\ [][LoopNext]_vars

\* the thread of run_worker keeps running: a loop that can take a step
\* eventually takes one
FairSpec == QueueSpec /\ \A w \in LoopWorkers : WF_vars(WorkerStep(w))

\* the loop with a store that may be unreachable at any store operation
FaultNext ==
    \/ LoopNext
    \/ \E w \in Workers : StoreFault(w)

FaultSpec == QueueInit /\ [][FaultNext]_vars

FairFaultSpec ==
    FaultSpec /\ \A w \in LoopWorkers : WF_vars(WorkerStep(w) \/ StoreFault(w))

\* two processes run web_entry.py against the same store
TwoWorkerInit ==
    /\ \E q \in Queues : LoopState(q, Workers)
    /\ fs = {}

TwoWorkerSpec == TwoWorkerInit /\ [][LoopNext]_vars

\* the status recorder on its own: calls with any arguments, at any time
RecorderNext ==
    \/ \E task_id \in TaskIds \cup {None}, a \in UpdateArgs : CallUpdate(task_id, a)
    \/ Tick

RecorderSpec == Init /\ [][RecorderNext]_vars

\* the dispatcher on its own: any set of existing files, calls in any order
DispatchInit ==
    /\ LoopInit
    /\ fs \in SUBSET Paths

DispatchNext == CallDispatcher

DispatchSpec == DispatchInit /\ [][DispatchNext]_vars

(***************************************************************************)
(* The claims.                                                             *)
(***************************************************************************)
\* the types the specification's dispatcher recognizes (spec section 4.2)
RecognizedTypes == {"video_generation", "video_analysis", "digital_human",
                    "video_processing", "image_generation"}

TerminalStatuses == {"completed", "failed"}

\* the message str(e) has part s in it
Contains(msg, s) == \E i \in 1..Len(msg) : msg[i] = s

\* the Status Record stored for task_id
StatusOf(task_id) == statusStore[StatusKey(task_id)].val

HasTerminalStatus(task_id) ==
    /\ StatusKey(task_id) \in DOMAIN statusStore
    /\ StatusOf(task_id).status \in TerminalStatuses

\* the entry e is in the store
Present(e) == EntryAt(e[1]) = e

\* C1: when a scan pass of run_worker has ended, every entry it claimed whose
\* Task Record has a recognized type and a task_id has had a handler invoked
\* and has a terminal Status Record (completed or failed) under task:<task_id>.
C1_ClaimedTaskGetsTerminalStatus ==
    \A w \in Workers :
        pc[w] = "sleep" =>
            \A c \in claimed :
                (/\ DictGet(c[2], "type") \in RecognizedTypes
                 /\ DictGet(c[2], "task_id") # None)
                => /\ lastCall.called
                   /\ HasTerminalStatus(DictGet(c[2], "task_id"))

\* C2: the pending key of an entry is deleted before its task is dispatched:
\* whenever run_worker is about to dispatch an entry's task (line 231), or has
\* dispatched it, that entry is no longer in the store.
C2_DeletedBeforeDispatch ==
    \A e \in EntryIds :
        (calls[e] > 0 \/ \E w \in Workers : pc[w] = "call" /\ cur[w] = e)
        => ~Present(e)

\* C2 witness: an entry with a non-empty value has been dispatched, and its
\* key is gone
C2_Witness ==
    \E w \in Workers :
        /\ pc[w] = "sleep"
        /\ cur[w] \in EntryIds
        /\ calls[cur[w]] = 1
        /\ ~Falsy(raw[w])
        /\ key[w] \notin DOMAIN pending

\* C3: when a scan pass has ended, no entry that a get of run_worker has read
\* and whose value is empty or malformed is still in the store.
C3_BadEntryRemovedByItsPass ==
    \A w \in Workers :
        pc[w] = "sleep" =>
            \A k \in DOMAIN pending :
                reads[<<k, serial[k]>>] > 0
                => ~(Falsy(pending[k]) \/ ~json_loads(pending[k]).ok)

\* C4: a malformed payload does not end the sweep: when a pass in which
\* json.loads raised has ended, the for loop has gone through every key the
\* pass enumerated.
C4_MalformedDoesNotEndSweep ==
    \A w \in Workers :
        (pc[w] = "sleep" /\ err[w].exc = "JSONDecodeError")
        => idx[w] = Len(task_keys[w])

\* C5: for a Task Record whose type is unrecognized or missing, the dispatcher
\* invokes no handler, returns without raising, and writes a Status Record with
\* status failed, progress 0 and an error that contains the type value.
C5_UnknownTypeFails ==
    (lastCall.called /\ DictGet(lastCall.task, "type") \notin RecognizedTypes)
    => /\ lastCall.handler = None
       /\ ~lastCall.raised
       /\ lastCall.wrote = StatusKey(DictGet(lastCall.task, "task_id"))
       /\ lastCall.wrote \in DOMAIN statusStore
       /\ LET rec == StatusOf(DictGet(lastCall.task, "task_id")) IN
            /\ rec.status = "failed"
            /\ rec.progress = 0
            /\ "result" \notin DOMAIN rec
            /\ "error" \in DOMAIN rec
            /\ Contains(rec.error, PyStr(DictGet(lastCall.task, "type")))

\* C5 witness: a task of type "bogus" has been dispatched and its Status
\* Record says failed
C5_Witness ==
    /\ lastCall.called
    /\ DictGet(lastCall.task, "type") = "bogus"
    /\ DictGet(lastCall.task, "task_id") = "t1"
    /\ HasTerminalStatus("t1")
    /\ StatusOf("t1").status = "failed"
    /\ Contains(StatusOf("t1").error, "bogus")

\* C6: for a Task Record (with a task_id) of a recognized type the dispatcher
\* selects a handler and records no unknown-task-type failure; an
\* image_generation task whose handler succeeds ends completed at progress 100.
C6_RecognizedTypeHasHandler ==
    (/\ lastCall.called
     /\ DictGet(lastCall.task, "task_id") # None
     /\ DictGet(lastCall.task, "type") \in RecognizedTypes)
    => /\ lastCall.handler # None
       /\ lastCall.outcome # UnknownTypeError(DictGet(lastCall.task, "type"))
       /\ (/\ DictGet(lastCall.task, "type") = "image_generation"
           /\ lastCall.outcome.kind = "return")
          => /\ HasTerminalStatus(DictGet(lastCall.task, "task_id"))
             /\ StatusOf(DictGet(lastCall.task, "task_id")).status = "completed"
             /\ StatusOf(DictGet(lastCall.task, "task_id")).progress = 100

\* C7: the Status Record the dispatcher writes for a Task Record (with a
\* task_id) is completed, progress 100, with the handler's value as result and
\* no error when the handler returned a value, and failed, progress 0, with the
\* handler's error and no result when the handler failed.
C7_StatusShapes ==
    (/\ lastCall.called
     /\ DictGet(lastCall.task, "task_id") # None
     /\ lastCall.wrote # None)
    => LET rec == StatusOf(DictGet(lastCall.task, "task_id")) IN
       IF lastCall.outcome.kind = "return"
       THEN /\ rec.status = "completed"
            /\ rec.progress = 100
            /\ "result" \in DOMAIN rec
            /\ rec.result = lastCall.outcome.value
            /\ "error" \notin DOMAIN rec
       ELSE /\ rec.status = "failed"
            /\ rec.progress = 0
            /\ "error" \in DOMAIN rec
            /\ rec.error = lastCall.outcome.error.msg
            /\ "result" \notin DOMAIN rec

\* C8: a fault a handler raises is caught in the dispatcher: the call returns
\* without raising and has written a Status Record with status failed and the
\* fault's description as error.
C8_HandlerFaultBecomesFailed ==
    (lastCall.called /\ lastCall.handler # None /\ lastCall.outcome.kind = "raise")
    => /\ ~lastCall.raised
       /\ lastCall.wrote = StatusKey(DictGet(lastCall.task, "task_id"))
       /\ lastCall.wrote \in DOMAIN statusStore
       /\ LET rec == StatusOf(DictGet(lastCall.task, "task_id")) IN
            /\ rec.status = "failed"
            /\ rec.progress = 0
            /\ "error" \in DOMAIN rec
            /\ rec.error = lastCall.outcome.error.msg

\* C8 witness: a video_processing task whose input path does not exist has
\* been dispatched, and its Status Record says failed and names the path
C8_Witness ==
    /\ lastCall.called
    /\ DictGet(lastCall.task, "type") = "video_processing"
    /\ DictGet(lastCall.task, "input_path") = "/in.mp4"
    /\ "/in.mp4" \notin fs
    /\ DictGet(lastCall.task, "task_id") = "t1"
    /\ ~lastCall.raised
    /\ HasTerminalStatus("t1")
    /\ StatusOf("t1").status = "failed"
    /\ Contains(StatusOf("t1").error, "/in.mp4")

\* C10: an entry of the queue is read by at most one get, removed by at most
\* one delete and dispatched at most once, in the same or any later pass.
C10_EntryHandledOnce ==
    \A e \in EntryIds : reads[e] <= 1 /\ deletes[e] <= 1 /\ calls[e] <= 1

\* C11: a Task Record with no task_id is dropped: the dispatcher writes no
\* Status Record for it, under any key.
C11_NoIdWritesNothing ==
    (lastCall.called /\ DictGet(lastCall.task, "task_id") = None)
    => /\ lastCall.wrote = None
       /\ StatusKey(None) \notin DOMAIN statusStore

\* C12: the worker loop has no terminal state: it starts a new scan again and
\* again, and after any exception caught at line 233 (a store operation that
\* raised, or any other exception of the pass) it sleeps and scans again.
C12_LoopNeverStops ==
    \A w \in LoopWorkers :
        /\ []<>(pc[w] = "keys")
        /\ (pc[w] = "sleep" /\ err[w] # NoError) ~> (pc[w] = "keys")

\* C12 witness: a store operation raised, the exception was caught and the
\* loop is at its sleep
C12_Witness ==
    \E w \in LoopWorkers :
        /\ pc[w] = "sleep"
        /\ err[w] = ConnectionError
        /\ \E e \in EntryIds : reads[e] >= 2

\* C14: a store failure costs no task: when a store operation of a pass
\* (keys, get or delete) has raised and the exception has been caught at line
\* 233, no task has been claimed (line 229) in that pass, so none has been
\* claimed without its terminal Status Record.
C14_StoreFaultCostsNoTask ==
    \A w \in Workers :
        (pc[w] = "sleep" /\ err[w] = ConnectionError) => passClaimed[w] = {}

\* C14 witness: a pass deleted the key of an empty entry, then the get of its
\* second key raised and the exception was caught
C14_Witness ==
    \E w \in Workers :
        /\ pc[w] = "sleep"
        /\ err[w] = ConnectionError
        /\ idx[w] = 2
        /\ key[w] = task_keys[w][2]
        /\ key[w] \in DOMAIN pending
        /\ serial[key[w]] = 1
        /\ reads[<<key[w], 1>>] = 0
        /\ task_keys[w][1] \notin DOMAIN pending
        /\ deletes[<<task_keys[w][1], 1>>] = 1

\* whether the raw value v holds a well-formed Task Record
WellFormed(v) == ~Falsy(v) /\ json_loads(v).ok

\* C13: a burst of pending tasks is drained within one scan pass: when the
\* loop reaches the sleep that ends a pass whose enumerated keys held Task
\* Records, every key the enumeration returned has been removed from the queue.
C13_PassDrainsEnumeratedKeys ==
    \A w \in LoopWorkers :
        (/\ pc[w] = "sleep"
         /\ \A i \in 1..Len(task_keys[w]) :
               task_keys[w][i] \in DOMAIN pending => WellFormed(pending[task_keys[w][i]]))
        => \A i \in 1..Len(task_keys[w]) : task_keys[w][i] \notin DOMAIN pending

\* C19: no queue entry can starve another: with the store reachable and the
\* loop scheduled fairly, every pending entry that holds a well-formed Task
\* Record is eventually claimed and dispatched (line 231), whatever else is in
\* the queue and in whatever order the store enumerates the keys.
C19_NoStarvation ==
    \A e \in EntryIds :
        (Present(e) /\ WellFormed(pending[e[1]])) ~> (calls[e] > 0)

\* C18: when two worker loops run against the same store, each pending entry
\* is dispatched (line 231) by at most one of the two workers, whatever the
\* interleaving of their keys, get and delete steps.
C18_OneWorkerDispatchesEntry ==
    \A e \in EntryIds :
        Cardinality({w \in Workers : callsBy[<<w, e>>] > 0}) <= 1

\* C16: the worker never retries or re-enqueues: a step that is not a
\* producer's enqueue leaves every key of the queue that exists after it as it
\* was before it (the worker only reads and deletes), and an entry that has
\* been dispatched is not dispatched again.
C16_WorkerNeverRequeues ==
    [][/\ serial' = serial
          => \A k \in DOMAIN pending' : k \in DOMAIN pending /\ pending'[k] = pending[k]
       /\ \A e \in EntryIds : calls'[e] # calls[e] => calls[e] = 0]_vars

\* C16 witness: an entry was claimed and its dispatch failed, the key stayed
\* absent until a producer created a new entry under it, and that entry was
\* dispatched in its turn
C16_Witness ==
    \E k \in PendingKeys :
        /\ calls[<<k, 1>>] = 1
        /\ calls[<<k, 2>>] = 1
        /\ k \notin DOMAIN pending
        /\ \E w \in LoopWorkers : pc[w] = "sleep" /\ err[w] = NameErrorProcessTask

\* the fields a Status Record written with the arguments a has
FieldsFor(a) ==
    {"task_id", "status", "progress", "timestamp"}
    \cup (IF a.result # NoValue THEN {"result"} ELSE {})
    \cup (IF a.error # NoValue THEN {"error"} ELSE {})

\* the record r with its timestamp left out
SansTimestamp(r) == [f \in DOMAIN r \ {"timestamp"} |-> r[f]]

\* C15: update_task_status overwrites wholesale and is idempotent: after a
\* call the record under task:<task_id> has exactly the fields the arguments
\* give, with the arguments' values, whatever record was stored before; and a
\* call that repeats the call before it leaves a record equal, except for
\* timestamp, to the one that call left.
C15_UpdateOverwritesAndIsIdempotent ==
    lastUpdate.called =>
        LET k == StatusKey(lastUpdate.task_id)
            a == lastUpdate.args
        IN
        /\ k \in DOMAIN statusStore
        /\ DOMAIN statusStore[k].val = FieldsFor(a)
        /\ statusStore[k].val.status = a.status
        /\ statusStore[k].val.progress = a.progress
        /\ statusStore[k].val.task_id =
              (IF lastUpdate.task_id = None THEN JsonNull ELSE lastUpdate.task_id)
        /\ statusStore[k].val.timestamp = lastUpdate.at
        /\ a.result # NoValue => statusStore[k].val.result = a.result[1]
        /\ a.error # NoValue => statusStore[k].val.error = a.error[1]
        /\ (lastUpdate.repeat /\ lastUpdate.before # NoValue)
           => SansTimestamp(statusStore[k].val) = SansTimestamp(lastUpdate.before[1])

\* C15 witness: the same failed status was written twice, a second apart: the
\* second call found the record of the first under the key
C15_Witness ==
    /\ lastUpdate.called
    /\ lastUpdate.repeat
    /\ lastUpdate.args.error # NoValue
    /\ lastUpdate.before # NoValue
    /\ lastUpdate.before[1].timestamp < lastUpdate.at
    /\ StatusKey(lastUpdate.task_id) \in DOMAIN statusStore

\* C17: every Status Record in the store has a time-to-live of 3600 seconds
\* counted from its last write: the time-to-live left is 3600 less the time
\* since the timestamp of the record, and is never absent or run out.
C17_TTLCountsFromLastWrite ==
    \A k \in DOMAIN statusStore :
        /\ statusStore[k].ttl = StatusTTL - (now - statusStore[k].val.timestamp)
        /\ statusStore[k].ttl > 0

\* C17 witness: a record written at time 0 was overwritten a second later,
\* when its time-to-live had counted down, and has the full time-to-live again
C17_Witness ==
    /\ lastUpdate.called
    /\ lastUpdate.before # NoValue
    /\ lastUpdate.before[1].timestamp = 0
    /\ lastUpdate.at = 1
    /\ now = 1
    /\ statusStore[StatusKey(lastUpdate.task_id)].ttl = StatusTTL
    /\ \E k \in DOMAIN statusStore : statusStore[k].ttl < StatusTTL

=============================================================================
